---- MODULE Spec2Model ----
(***************************************************************************)
(* Restaurant-Price-Optimizer: the pricing rule (pricing/services.py) and  *)
(* the request handler that applies it to a sample menu (pricing/views.py).*)
(*                                                                         *)
(* Numbers.  The program computes in floating point; the model computes    *)
(* the same expressions exactly, in fixed point:                           *)
(*   money        1 dollar  = 20000 ticks  (Dollars(cents) = cents * 200), *)
(*                so that price * (price_level / 2) and                    *)
(*                lowest_price * markup are whole numbers of ticks;        *)
(*   Kelvin       1 K       = 100 units    (293.15 K is 29315);            *)
(*   Fahrenheit   1 degree  = 500 units    ((k - 273.15) * 9/5 is whole);  *)
(*   markup       1.0       = 100 units    (1.1 + (b - 70)/100 is whole);  *)
(*   a percentage is the exact fraction <<numerator, denominator>> in      *)
(*   lowest terms.                                                         *)
(* Python dictionaries are functions from keys to values, the empty        *)
(* dictionary is <<>>, a list is a sequence, and a JSON number that may be *)
(* null is a tagged value (Float(v) or None).                              *)
(***************************************************************************)
EXTENDS Integers, Sequences, FiniteSets, TLC

VARIABLES
    call,                 \* the last direct call of a service function, with its arguments
    ret,                  \* what that call returned
    pc,                   \* PricingView.get: where the request is
    request,              \* request.GET: 'restaurant' and 'place_id'
    restaurant_details,   \* views.py:39
    nearby_restaurants,   \* views.py:58
    weather_data,         \* views.py:64
    current_busy_level,   \* views.py:70
    competitor_lists,     \* views.py:86-90: competitor_prices of each item of the loop so far
    menu_items,           \* views.py:73, 99
    context,              \* the context handed to render
    rendered,             \* the templates rendered for this request, in order
    raised                \* where an exception was raised while serving this request

vars == <<call, ret, pc, request, restaurant_details, nearby_restaurants, weather_data,
          current_busy_level, competitor_lists, menu_items, context, rendered, raised>>

viewVars == <<pc, request, restaurant_details, nearby_restaurants, weather_data,
              current_busy_level, competitor_lists, menu_items, context, rendered, raised>>

(***************************************************************************)
(* Bounds of the model.                                                    *)
(***************************************************************************)
MaxCompetitors == 2       \* longest competitor_prices list of a direct call
MaxVenues == 6            \* longest 'results' list of a nearby search

(***************************************************************************)
(* Python values.                                                          *)
(***************************************************************************)
EmptyDict == <<>>

None == [type |-> "NoneType"]

Float(v) == [type |-> "float", value |-> v]

IsNumber(v) == v.type = "float"

\* dict.get(k, default)
Get(d, k, default) == IF k \in DOMAIN d THEN d[k] ELSE default

Dollars(cents) == cents * 200

Max(a, b) == IF a >= b THEN a ELSE b

\* min(list), the list not empty
Min(s) == CHOOSE m \in {s[i] : i \in DOMAIN s} : \A i \in DOMAIN s : m <= s[i]

(***************************************************************************)
(* WeatherService.kelvin_to_fahrenheit: (kelvin - 273.15) * 9/5 + 32.      *)
(***************************************************************************)
kelvin_to_fahrenheit_celsius(kelvin) == (kelvin - 27315) * 5

kelvin_to_fahrenheit(kelvin) == (kelvin - 27315) * 9 + 32 * 500

(***************************************************************************)
(* PricingService.calculate_price, line by line.                           *)
(***************************************************************************)
lowest_price(competitor_prices) == Min(competitor_prices)

temp_kelvin_zero_default(weather) == Get(weather, "temp", Float(0))

temp_kelvin(weather) == Get(weather, "temp", Float(29315))

temp_f(weather) == (temp_kelvin(weather).value - 27315) * 9 + 32 * 500

weather_conditions(weather) ==
    Get(Get(weather, "weather", <<[main |-> "Clear"]>>)[1], "main", "Clear")

bad_weather(weather) == weather_conditions(weather) \in {"Rain", "Snow", "Thunderstorm"}

busier_than_usual_inclusive(busy_level) == busy_level >= 70

busier_than_usual(busy_level) == busy_level > 70

markup_capped(busy_level) == 110

markup(busy_level) == 110 + (busy_level - 70)

\* the line of calculate_price that raises, when one does
calculate_price_raises(weather, competitor_prices) ==
    IF competitor_prices = <<>> THEN "no"
    ELSE IF ~IsNumber(temp_kelvin(weather)) THEN "TypeError"
    ELSE IF Get(weather, "weather", <<[main |-> "Clear"]>>) = <<>> THEN "IndexError"
    ELSE "no"

calculate_price_no_fallback(base_price, weather, busy_level, competitor_prices) ==
    IF competitor_prices = <<>> THEN 0
    ELSE IF (temp_f(weather) < 45 * 500 \/ bad_weather(weather))
            /\ busier_than_usual(busy_level)
         THEN Max((lowest_price(competitor_prices) * markup(busy_level)) \div 100, base_price)
         ELSE lowest_price(competitor_prices)

calculate_price(base_price, weather, busy_level, competitor_prices) ==
    IF competitor_prices = <<>> THEN base_price
    ELSE IF (temp_f(weather) < 45 * 500 \/ bad_weather(weather))
            /\ busier_than_usual(busy_level)
         THEN Max((lowest_price(competitor_prices) * markup(busy_level)) \div 100, base_price)
         ELSE lowest_price(competitor_prices)

(***************************************************************************)
(* Direct calls of the two pure functions, over bounded arguments.         *)
(***************************************************************************)
BasePrices == {Dollars(1599), Dollars(1000), Dollars(100)}

CompetitorPrices == {Dollars(1499), Dollars(1699), Dollars(500), 0}

BusyLevels == {0, 50, 70, 71, 80, 100, 110}

Temperatures == {27315, 28037, 28038, 28315, 37315}

Conditions == {"Clear", "Clouds", "Rain", "Snow", "Thunderstorm", "rain"}

SeqsUpTo(S, n) == UNION {[1..k -> S] : k \in 0..n}

\* weather_data as calculate_price documents it, each key present or not
TempParts == {EmptyDict} \cup {[temp |-> Float(t)] : t \in Temperatures}

WeatherParts ==
    {EmptyDict, [weather |-> <<EmptyDict>>]} \cup {[weather |-> <<[main |-> c]>>] : c \in Conditions}

Merge(a, b) == [k \in DOMAIN a \cup DOMAIN b |-> IF k \in DOMAIN a THEN a[k] ELSE b[k]]

WeatherSnapshots == {Merge(t, w) : t \in TempParts, w \in WeatherParts}

Init ==
    /\ call = [op |-> "none"]
    /\ ret = 0
    /\ pc = "start"
    /\ request = EmptyDict
    /\ restaurant_details = EmptyDict
    /\ nearby_restaurants = EmptyDict
    /\ weather_data = EmptyDict
    /\ current_busy_level = 0
    /\ competitor_lists = <<>>
    /\ menu_items = <<>>
    /\ context = EmptyDict
    /\ rendered = <<>>
    /\ raised = {}

CallCalculatePrice ==
    /\ call.op = "none"
    /\ \E base_price \in BasePrices, weather \in WeatherSnapshots, busy_level \in BusyLevels,
          competitor_prices \in SeqsUpTo(CompetitorPrices, MaxCompetitors) :
        /\ call' = [op |-> "calculate_price", base_price |-> base_price, weather_data |-> weather,
                    busy_level |-> busy_level, competitor_prices |-> competitor_prices]
        /\ ret' = calculate_price(base_price, weather, busy_level, competitor_prices)
        /\ UNCHANGED viewVars

CallKelvinToFahrenheit ==
    /\ call.op = "none"
    /\ \E kelvin \in Temperatures \cup {0, 29315} :
        /\ call' = [op |-> "kelvin_to_fahrenheit", kelvin |-> kelvin]
        /\ ret' = kelvin_to_fahrenheit(kelvin)
        /\ UNCHANGED viewVars

NextPrice == CallCalculatePrice \/ CallKelvinToFahrenheit

SpecPrice == Init /\ [][NextPrice]_vars

(***************************************************************************)
(* The external services as PricingView.get sees them.  Each fetch either  *)
(* raises inside the service, which catches it and returns an error        *)
(* dictionary, or returns the provider's JSON.                             *)
(***************************************************************************)
Requests ==
    {Merge(q, p) : q \in {EmptyDict, [restaurant |-> "Taj"]},
                   p \in {EmptyDict, [place_id |-> ""], [place_id |-> "ChIJ"]}}

\* a query parameter that is present and not the empty string
Truthy(req, key) == key \in DOMAIN req /\ req[key] # ""

Venues ==
    {[name |-> "Venue"]} \cup {[name |-> "Venue", price_level |-> t] : t \in {0, 1, 3}}

SearchJson ==
    {[results |-> <<>>], [results |-> <<[name |-> "Taj", place_id |-> "ChIJ"]>>],
     [results |-> <<>>, error_message |-> "The provided API key is invalid."]}

DetailsJson ==
    {[error_message |-> "The provided API key is invalid.", status |-> "REQUEST_DENIED"],
     [status |-> "NOT_FOUND"],
     [result |-> EmptyDict],
     [result |-> [name |-> "Taj"]],
     [result |-> [name |-> "Taj", price_level |-> 2, photos |-> <<"photo">>,
                  geometry |-> [location |-> [lat |-> 407700, lng |-> -735300]]]]}

NearbyJson ==
    {[status |-> "REQUEST_DENIED"]} \cup {[results |-> s] : s \in SeqsUpTo(Venues, MaxVenues)}

\* responses of the weather provider: an error without 'main' and 'weather',
\* readings warm and cold, clear and rainy, and malformed ones (a null
\* temperature, an empty 'weather' list, entries without their fields)
WeatherJson ==
    {[cod |-> 401, message |-> "Invalid API key."],
     [main |-> EmptyDict, weather |-> <<EmptyDict>>],
     [main |-> [temp |-> Float(28315)], weather |-> <<[main |-> "Clear", description |-> "sky"]>>],
     [main |-> [temp |-> Float(28315)], weather |-> <<[main |-> "Rain", description |-> "rain"]>>],
     [main |-> [temp |-> Float(27315)], weather |-> <<[main |-> "Clear", description |-> "sky"]>>],
     [main |-> [temp |-> Float(27315)], weather |-> <<[main |-> "Rain", description |-> "rain"]>>],
     [main |-> [temp |-> None], weather |-> <<[main |-> "Clear", description |-> "sky"]>>],
     [main |-> [temp |-> Float(28315)], weather |-> <<>>]}

Outcomes(json) == {[exception |-> TRUE]} \cup {[exception |-> FALSE, json |-> j] : j \in json}

search_place(outcome) ==
    IF outcome.exception THEN [error_message |-> "Failed to search place"] ELSE outcome.json

get_restaurant_details(outcome) ==
    IF outcome.exception THEN [error_message |-> "Failed to get place details"] ELSE outcome.json

search_nearby_restaurants(outcome) ==
    IF outcome.exception THEN [error_message |-> "Failed to search nearby restaurants"]
    ELSE outcome.json

get_current_weather(outcome) ==
    IF outcome.exception THEN [error |-> "Failed to get weather data"] ELSE outcome.json

get_place_busy_times(place_id) == 75

(***************************************************************************)
(* PricingView.get: the menu loop (views.py:73-104).                       *)
(***************************************************************************)
sample_menu_items ==
    << [name |-> "Butter Chicken", price |-> Dollars(1699)],
       [name |-> "Chicken Tikka Masala", price |-> Dollars(1599)],
       [name |-> "Vegetable Biryani", price |-> Dollars(1499)],
       [name |-> "Naan", price |-> Dollars(399)] >>

\* list[:5]
FirstFive(list) == SubSeq(list, 1, IF Len(list) < 5 THEN Len(list) ELSE 5)

\* restaurant.get('price_level') as a condition
has_price_level_or_zero(restaurant) == "price_level" \in DOMAIN restaurant

has_price_level(restaurant) ==
    "price_level" \in DOMAIN restaurant /\ restaurant["price_level"] # 0

\* item['price'] * (restaurant['price_level'] / 2)
competitor_price(item, restaurant) == (item.price * restaurant["price_level"]) \div 2

\* the inner loop over the venues, in order (views.py:86-90)
RECURSIVE competitor_prices_of(_, _)
competitor_prices_of(item, restaurants) ==
    IF restaurants = <<>> THEN <<>>
    ELSE LET rest == competitor_prices_of(item, Tail(restaurants))
         IN  IF has_price_level(Head(restaurants))
             THEN <<competitor_price(item, Head(restaurants))>> \o rest
             ELSE rest

nearby_results_all(nearby) == Get(nearby, "results", <<>>)

\* nearby_restaurants.get('results', [])[:5]
nearby_results(nearby) == FirstFive(Get(nearby, "results", <<>>))

Abs(n) == IF n < 0 THEN -n ELSE n

RECURSIVE GCD(_, _)
GCD(a, b) == IF b = 0 THEN a ELSE GCD(b, a % b)

\* the exact quotient n / d, d > 0, in lowest terms
Ratio(n, d) == LET g == GCD(Abs(n), d) IN <<n \div g, d \div g>>

price_change_of_new(new_price, price) == Ratio((new_price - price) * 100, new_price)

\* ((new_price - item['price']) / item['price']) * 100
price_change(new_price, price) == Ratio((new_price - price) * 100, price)

quote(item, new_price) ==
    [name |-> item.name, original_price |-> item.price, new_price |-> new_price,
     price_change |-> price_change(new_price, item.price)]

\* one pass of the outer loop's body (views.py:92-104), competitor_prices built
price_item(item, competitor_prices, main, busy_level, acc) ==
    IF competitor_prices = <<>>
    THEN [acc EXCEPT !.competitor_lists = Append(@, competitor_prices)]
    ELSE IF calculate_price_raises(main, competitor_prices) # "no"
    THEN [acc EXCEPT !.competitor_lists = Append(@, competitor_prices),
                     !.exception = calculate_price_raises(main, competitor_prices)]
    ELSE [acc EXCEPT !.competitor_lists = Append(@, competitor_prices),
                     !.menu_items = Append(@, quote(item,
                         calculate_price(item.price, main, busy_level, competitor_prices)))]

\* the outer loop from item i on (views.py:84): the lists built, the quotes
\* appended, and the exception that ended it, if one did
RECURSIVE price_items(_, _, _, _, _)
price_items(i, restaurants, main, busy_level, acc) ==
    IF i > Len(sample_menu_items) \/ acc.exception # "no" THEN acc
    ELSE price_items(i + 1, restaurants, main, busy_level,
                     price_item(sample_menu_items[i],
                                competitor_prices_of(sample_menu_items[i], restaurants),
                                main, busy_level, acc))

\* the argument the view hands to calculate_price as weather_data
weather_argument_with_condition(weather) ==
    Merge(Get(weather, "main", EmptyDict),
          IF "weather" \in DOMAIN weather THEN [weather |-> weather["weather"]] ELSE EmptyDict)

weather_argument(weather) == Get(weather, "main", EmptyDict)

(***************************************************************************)
(* PricingView.get: the context of the pricing page (views.py:106-134).    *)
(***************************************************************************)
price_level_display(d) ==
    IF "price_level" \in DOMAIN d /\ d["price_level"] # 0
    THEN [i \in 1..d["price_level"] |-> "Rs"]
    ELSE <<"N/A">>

context_raises(weather) ==
    IF ~IsNumber(Get(Get(weather, "main", EmptyDict), "temp", Float(29315))) THEN "TypeError"
    ELSE IF Get(weather, "weather", <<EmptyDict>>) = <<>> THEN "IndexError"
    ELSE "no"

pricing_context(result, nearby, weather, busy_level, items) ==
    [restaurant_details |->
        [name |-> Get(result, "name", "Unknown Restaurant"),
         price_level |-> price_level_display(result),
         photos |-> FirstFive(Get(result, "photos", <<>>))],
     nearby_restaurants |->
        [i \in DOMAIN nearby_results(nearby) |->
            [name |-> Get(nearby_results(nearby)[i], "name", "Unknown"),
             price_level |-> price_level_display(nearby_results(nearby)[i])]],
     weather_data |->
        [temperature_f |->
            kelvin_to_fahrenheit(Get(Get(weather, "main", EmptyDict), "temp", Float(29315)).value),
         condition |-> Get(Get(weather, "weather", <<EmptyDict>>)[1], "main", "Unknown"),
         description |-> Get(Get(weather, "weather", <<EmptyDict>>)[1], "description",
                             "Weather data not available")],
     busy_level |-> busy_level,
     menu_items |-> items]

\* the except clause of the view (views.py:138-140)
on_exception_propagate == "uncaught"

on_exception == "pricing/error.html"

(***************************************************************************)
(* PricingView.get, step by step.                                          *)
(***************************************************************************)
ShowSearchForm ==
    /\ pc = "start"
    /\ \E req \in Requests :
        /\ ~Truthy(req, "restaurant") /\ ~Truthy(req, "place_id")
        /\ request' = req
    /\ rendered' = Append(rendered, "pricing/search.html")
    /\ pc' = "done"
    /\ UNCHANGED <<call, ret, restaurant_details, nearby_restaurants, weather_data,
                   current_busy_level, competitor_lists, menu_items, context, raised>>

ShowSearchResults ==
    /\ pc = "start"
    /\ \E req \in Requests, outcome \in Outcomes(SearchJson) :
        /\ Truthy(req, "restaurant") /\ ~Truthy(req, "place_id")
        /\ request' = req
        /\ raised' = IF outcome.exception THEN raised \cup {"search_place"} ELSE raised
        /\ context' = [search_query |-> req["restaurant"],
                       restaurants |-> Get(search_place(outcome), "results", <<>>),
                       error_message |-> Get(search_place(outcome), "error_message", "None")]
    /\ rendered' = Append(rendered, "pricing/search_results.html")
    /\ pc' = "done"
    /\ UNCHANGED <<call, ret, restaurant_details, nearby_restaurants, weather_data,
                   current_busy_level, competitor_lists, menu_items>>

GetRestaurantDetails ==
    /\ pc = "start"
    /\ \E req \in Requests, outcome \in Outcomes(DetailsJson) :
        /\ Truthy(req, "place_id")
        /\ request' = req
        /\ raised' = IF outcome.exception THEN raised \cup {"get_restaurant_details"} ELSE raised
        /\ restaurant_details' = get_restaurant_details(outcome)
    /\ IF "error_message" \in DOMAIN restaurant_details'
       THEN /\ context' = [error |-> restaurant_details'["error_message"]]
            /\ rendered' = Append(rendered, "pricing/error.html")
            /\ pc' = "done"
       ELSE IF Get(restaurant_details', "result", EmptyDict) = EmptyDict
       THEN /\ context' = [error |-> "Unable to fetch restaurant details"]
            /\ rendered' = Append(rendered, "pricing/error.html")
            /\ pc' = "done"
       ELSE /\ pc' = "try"
            /\ UNCHANGED <<context, rendered>>
    /\ UNCHANGED <<call, ret, nearby_restaurants, weather_data, current_busy_level,
                   competitor_lists, menu_items>>

RenderError(exception, where) ==
    /\ raised' = raised \cup where
    /\ context' = [error |-> exception]
    /\ IF on_exception = "uncaught"
       THEN pc' = "uncaught" /\ UNCHANGED rendered
       ELSE pc' = "done" /\ rendered' = Append(rendered, on_exception)

\* the try block (views.py:56-140): the three fetches, the menu loop, the
\* context and the page
AnalyzeRestaurant ==
    /\ pc = "try"
    /\ \E nearby \in Outcomes(NearbyJson), weather \in Outcomes(WeatherJson) :
        /\ nearby_restaurants' = search_nearby_restaurants(nearby)
        /\ weather_data' = get_current_weather(weather)
        /\ current_busy_level' = get_place_busy_times(request["place_id"])
        /\ LET fetching == (IF nearby.exception THEN {"search_nearby_restaurants"} ELSE {})
                              \cup (IF weather.exception THEN {"get_current_weather"} ELSE {})
               result == restaurant_details["result"]
               empty == [competitor_lists |-> <<>>, menu_items |-> <<>>, exception |-> "no"]
           IN  \E priced \in {IF Get(result, "photos", <<>>) # <<>>
                                THEN price_items(1, nearby_results(nearby_restaurants'),
                                                 weather_argument(weather_data'),
                                                 current_busy_level', empty)
                                ELSE empty} :
               /\ competitor_lists' = priced.competitor_lists
               /\ menu_items' = priced.menu_items
               /\ IF priced.exception # "no"
                  THEN RenderError(priced.exception, fetching \cup {"calculate_price"})
                  ELSE IF context_raises(weather_data') # "no"
                  THEN RenderError(context_raises(weather_data'), fetching \cup {"context"})
                  ELSE /\ context' = pricing_context(result, nearby_restaurants', weather_data',
                                                     current_busy_level', priced.menu_items)
                       /\ rendered' = Append(rendered, "pricing/pricing.html")
                       /\ pc' = "done"
                       /\ raised' = raised \cup fetching
    /\ UNCHANGED <<call, ret, request, restaurant_details>>

NextView ==
    \/ ShowSearchForm
    \/ ShowSearchResults
    \/ GetRestaurantDetails
    \/ AnalyzeRestaurant

SpecView == Init /\ [][NextView]_vars

(***************************************************************************)
(* Properties of calculate_price and kelvin_to_fahrenheit (SpecPrice).      *)
(***************************************************************************)
Priced == call.op = "calculate_price"

\* the snapshot's temperature in Fahrenheit and its condition, the documented
\* defaults standing in for a missing field (services.py:278, 282)
SnapshotFahrenheit == kelvin_to_fahrenheit(temp_kelvin(call.weather_data).value)

SnapshotCondition == weather_conditions(call.weather_data)

MarkupCondition ==
    /\ \/ SnapshotFahrenheit < 45 * 500
       \/ SnapshotCondition \in {"Rain", "Snow", "Thunderstorm"}
    /\ call.busy_level > 70

\* f"{price:.2f}" of the docstring example (services.py:270): ticks to whole cents
RoundToCents(price) == (price + 100) \div 200

IsDocumentedExample ==
    /\ Priced
    /\ call.base_price = Dollars(1599)
    /\ call.weather_data = [temp |-> Float(28315), weather |-> <<[main |-> "Rain"]>>]
    /\ call.busy_level = 80
    /\ call.competitor_prices = <<Dollars(1499), Dollars(1699)>>

\* C1: with an empty competitor_prices list calculate_price returns base_price
\* unchanged, whatever the weather snapshot (fields present or missing) and
\* whatever the busy level.
C1_EmptyCompetitorsReturnBase ==
    (Priced /\ call.competitor_prices = <<>>) => ret = call.base_price

C1_Witness ==
    /\ Priced
    /\ call.competitor_prices = <<>>
    /\ call.weather_data = EmptyDict
    /\ call.busy_level = 80
    /\ call.base_price = Dollars(1599)
    /\ ret = Dollars(1599)

C3_UndercutBranch ==
    (Priced /\ call.competitor_prices # <<>> /\ ~MarkupCondition)
        => ret = Min(call.competitor_prices)

C3_Witness ==
    /\ Priced
    /\ call.busy_level = 70
    /\ SnapshotCondition = "Snow"
    /\ SnapshotFahrenheit < 45 * 500
    /\ call.competitor_prices = <<Dollars(1699), Dollars(500)>>
    /\ call.base_price = Dollars(1599)
    /\ ret = Dollars(500)

\* C4: for busy_level in [0, 100] and non-negative prices the result is the
\* lowest competitor price or a markup of it within [1.1, 1.3] times the lowest
\* competitor price, and it is not below base_price when the markup applies
\* (base_price itself being the result where the marked-up price is below it).
C4_PriceWithinMarkupBand ==
    (Priced /\ call.competitor_prices # <<>> /\ call.busy_level \in 0..100)
        => /\ \/ ret = Min(call.competitor_prices)
              \/ /\ 110 * Min(call.competitor_prices) <= 100 * ret
                 /\ 100 * ret <= 130 * Min(call.competitor_prices)
              \/ /\ MarkupCondition
                 /\ ret = call.base_price
                 /\ 130 * Min(call.competitor_prices) <= 100 * ret
           /\ MarkupCondition => ret >= call.base_price

\* C5: the docstring example: calculate_price(15.99, {'temp': 283.15, 'weather':
\* [{'main': 'Rain'}]}, 80, [14.99, 16.99]) is 16.49 to two decimals.
C5_DocumentedExample == IsDocumentedExample => RoundToCents(ret) = 1649

\* C6: kelvin_to_fahrenheit(k) = (k - 273.15) * 9/5 + 32, with 273.15 -> 32.0
\* and 373.15 -> 212.0, and calculate_price compares that same conversion of
\* the snapshot's Kelvin temperature against 45: in weather that is not
\* adverse, above busy level 70, the price is marked up exactly when the
\* converted temperature is below 45.
C6_KelvinToFahrenheit ==
    /\ call.op = "kelvin_to_fahrenheit"
        => /\ 5 * (ret - 32 * 500) = 9 * 5 * (call.kelvin - 27315)
           /\ call.kelvin = 27315 => ret = 32 * 500
           /\ call.kelvin = 37315 => ret = 212 * 500
    /\ Priced
        => temp_f(call.weather_data) = kelvin_to_fahrenheit(temp_kelvin(call.weather_data).value)
    /\ (Priced /\ call.competitor_prices # <<>> /\ call.busy_level > 70
          /\ SnapshotCondition \notin {"Rain", "Snow", "Thunderstorm"})
        => (ret = Min(call.competitor_prices)
              <=> (temp_kelvin(call.weather_data).value - 27315) * 9 + 32 * 500 >= 45 * 500)

C6_Witness ==
    /\ call.op = "kelvin_to_fahrenheit"
    /\ call.kelvin = 37315
    /\ ret = 212 * 500

(***************************************************************************)
(* Properties of PricingView.get (SpecView).                               *)
(***************************************************************************)
PlaceGiven == Truthy(request, "place_id")

QueryGiven == Truthy(request, "restaurant")

PricingPage == pc = "done" /\ rendered = <<"pricing/pricing.html">>

ErrorPage == pc = "done" /\ rendered = <<"pricing/error.html">>

\* the number of items up to item i whose competitor list is not empty
QuotesUpTo(i) == Cardinality({j \in 1..i : competitor_lists[j] # <<>>})

\* C7: on the pricing page the quotes are, in menu order, exactly the items
\* whose competitor list is not empty; each carries the item's price, the price
\* calculate_price gives for the weather argument of the view, the busy level
\* and that list, and price_change = (new_price - price) / price * 100.
C7_MenuAggregation ==
    PricingPage =>
        /\ Len(menu_items) = QuotesUpTo(Len(competitor_lists))
        /\ \A i \in DOMAIN competitor_lists :
              competitor_lists[i] # <<>> =>
                 LET q == menu_items[QuotesUpTo(i)]
                     item == sample_menu_items[i]
                 IN  /\ q.name = item.name
                     /\ q.original_price = item.price
                     /\ q.new_price = calculate_price(item.price, Get(weather_data, "main", EmptyDict),
                                                      current_busy_level, competitor_lists[i])
                     /\ q.price_change[2] > 0
                     /\ q.price_change[1] * item.price
                            = q.price_change[2] * (q.new_price - item.price) * 100
        /\ Get(restaurant_details["result"], "photos", <<>>) # <<>>
              => Len(competitor_lists) = Len(sample_menu_items)

C7_Witness ==
    /\ PricingPage
    /\ Len(menu_items) = 4
    /\ menu_items[1].name = "Butter Chicken"
    /\ menu_items[4].name = "Naan"
    /\ menu_items[4].original_price = Dollars(399)
    /\ competitor_lists[4] = <<(Dollars(399) * 3) \div 2>>
    /\ menu_items[4].new_price = (((Dollars(399) * 3) \div 2) * 115) \div 100
    /\ menu_items[4].price_change = <<145, 2>>

\* the entries the venues give for an item's price: one per venue that reports
\* a price tier (KnownTierPrices), one per venue with a non-zero tier
\* (NonZeroTierPrices), in the order of the venues
RECURSIVE KnownTierPrices(_, _)
KnownTierPrices(price, venues) ==
    IF venues = <<>> THEN <<>>
    ELSE (IF "price_level" \in DOMAIN Head(venues)
          THEN <<(price * Head(venues)["price_level"]) \div 2>> ELSE <<>>)
         \o KnownTierPrices(price, Tail(venues))

RECURSIVE NonZeroTierPrices(_, _)
NonZeroTierPrices(price, venues) ==
    IF venues = <<>> THEN <<>>
    ELSE (IF "price_level" \in DOMAIN Head(venues) /\ Head(venues)["price_level"] # 0
          THEN <<(price * Head(venues)["price_level"]) \div 2>> ELSE <<>>)
         \o NonZeroTierPrices(price, Tail(venues))

AllVenues == Get(nearby_restaurants, "results", <<>>)

\* C8 as stated: each item's competitor list has one entry price * (tier / 2)
\* for every venue of the nearby search that reports a tier, whatever the tier
\* and wherever the venue is in the result list, and no other entry.
C8_AsStated ==
    \A i \in DOMAIN competitor_lists :
        competitor_lists[i] # <<>>
            => competitor_lists[i] = KnownTierPrices(sample_menu_items[i].price, AllVenues)

\* C8 as amended: the entries come from the first five venues of the result
\* list only, and only from those whose tier is present and not zero.
C8_FirstFiveNonZeroTiers ==
    \A i \in DOMAIN competitor_lists :
        competitor_lists[i]
            = NonZeroTierPrices(sample_menu_items[i].price,
                                SubSeq(AllVenues, 1, IF Len(AllVenues) < 5 THEN Len(AllVenues) ELSE 5))

C8_Witness ==
    /\ PricingPage
    /\ Len(AllVenues) = 6
    /\ AllVenues[1] = [name |-> "Venue", price_level |-> 0]
    /\ AllVenues[2] = [name |-> "Venue"]
    /\ AllVenues[3] = [name |-> "Venue", price_level |-> 3]
    /\ AllVenues[6] = [name |-> "Venue", price_level |-> 1]
    /\ Len(competitor_lists) = 4
    /\ competitor_lists[2][1] = (Dollars(1599) * 3) \div 2

DetailsFailed ==
    \/ "error_message" \in DOMAIN restaurant_details
    \/ Get(restaurant_details, "result", EmptyDict) = EmptyDict

\* the weather lookup gave neither a temperature nor a condition
NoTemperature == "temp" \notin DOMAIN Get(weather_data, "main", EmptyDict)

NoCondition ==
    \/ "weather" \notin DOMAIN weather_data
    \/ /\ weather_data["weather"] # <<>>
       /\ "main" \notin DOMAIN weather_data["weather"][1]

\* C9: when the weather lookup yields no temperature and no condition the
\* request does not end on the error page: the pricing page is rendered, the
\* temperature used is the placeholder 293.15 K (68 Fahrenheit), and every
\* quote is the lowest competitor price, without markup, at the busy level of
\* the request.
C9_MissingWeatherDefaults ==
    (pc = "done" /\ PlaceGiven /\ ~DetailsFailed /\ NoTemperature /\ NoCondition)
        => /\ PricingPage
           /\ context.weather_data.temperature_f = 68 * 500
           /\ current_busy_level > 70
           /\ \A i \in DOMAIN competitor_lists :
                 competitor_lists[i] # <<>>
                    => menu_items[QuotesUpTo(i)].new_price = Min(competitor_lists[i])

C9_Witness ==
    /\ PricingPage
    /\ "error" \in DOMAIN weather_data
    /\ Len(menu_items) = 4
    /\ competitor_lists[1] = <<(Dollars(1699) * 3) \div 2, (Dollars(1699) * 1) \div 2>>
    /\ menu_items[1].new_price = (Dollars(1699) * 1) \div 2

\* every request ends with exactly one page, chosen by the query parameters
OnePagePerRequest ==
    /\ pc \in {"start", "try", "done"}
    /\ pc # "done" => (rendered = <<>> /\ ENABLED NextView)
    /\ pc = "done" =>
          /\ Len(rendered) = 1
          /\ (~QueryGiven /\ ~PlaceGiven) => rendered = <<"pricing/search.html">>
          /\ (QueryGiven /\ ~PlaceGiven) => rendered = <<"pricing/search_results.html">>
          /\ PlaceGiven => (PricingPage \/ ErrorPage)

\* C10 as stated: one page per request, and once a place_id is given a failed
\* details response or any exception raised while fetching the nearby venues,
\* the weather or the busy level, or while computing the prices, ends on the
\* error page.
C10_AsStated ==
    /\ OnePagePerRequest
    /\ (pc = "done" /\ PlaceGiven /\ (DetailsFailed \/ raised # {})) => ErrorPage

\* C10 as amended: one page per request; once a place_id is given the error
\* page is rendered exactly when the details response failed or an exception
\* reached the try block of the view (raised by calculate_price or while the
\* context of the page was built); an exception raised inside
\* search_nearby_restaurants or get_current_weather is caught by the service
\* and the request goes on with the error dictionary it returns.
C10_OnePageAndErrorPage ==
    /\ OnePagePerRequest
    /\ (pc = "done" /\ PlaceGiven)
          => (ErrorPage <=> (DetailsFailed \/ raised \cap {"get_restaurant_details",
                                                            "calculate_price", "context"} # {}))

C10_Witness ==
    /\ ErrorPage
    /\ PlaceGiven
    /\ ~DetailsFailed
    /\ raised = {"calculate_price"}
    /\ context = [error |-> "TypeError"]

\* the weather response reports a condition string
HasCondition ==
    /\ "weather" \in DOMAIN weather_data
    /\ weather_data["weather"] # <<>>
    /\ "main" \in DOMAIN weather_data["weather"][1]

\* the same response with another condition string and nothing else changed
WithCondition(weather, condition) ==
    [weather EXCEPT !["weather"] = <<[@[1] EXCEPT !["main"] = condition]>>]

\* the price the view asks calculate_price for item i, were the weather
\* response of this request the given one
NewPriceFor(weather, i) ==
    calculate_price(sample_menu_items[i].price, weather_argument(weather), current_busy_level,
                    competitor_lists[i])

HasPhotos == Get(restaurant_details["result"], "photos", <<>>) # <<>>

\* the first five venues of the nearby search, as the response lists them
FirstFiveVenues == SubSeq(AllVenues, 1, IF Len(AllVenues) < 5 THEN Len(AllVenues) ELSE 5)

\* the price tiers of the venues that report one other than zero, in order
RECURSIVE NonZeroTiers(_)
NonZeroTiers(venues) ==
    IF venues = <<>> THEN <<>>
    ELSE (IF "price_level" \in DOMAIN Head(venues) /\ Head(venues)["price_level"] # 0
          THEN <<Head(venues)["price_level"]>> ELSE <<>>)
         \o NonZeroTiers(Tail(venues))

\* the tiers item i was priced against, recovered from its competitor list
\* (an entry is price * tier / 2)
TiersPricedAgainst(i) ==
    [n \in DOMAIN competitor_lists[i] |->
        (2 * competitor_lists[i][n]) \div sample_menu_items[i].price]

\* C12: on the pricing page menu_items is all or nothing: it holds a quote for
\* each of the four sample items, in their order, or no quote at all; it is
\* empty whenever the details list no photo or none of the first five nearby
\* venues has a non-zero price_level; and when it is not empty every item was
\* priced against the same venues, the first five venues with a non-zero tier.
C12_AllOrNothing ==
    PricingPage =>
        /\ Len(menu_items) \in {0, Len(sample_menu_items)}
        /\ (~HasPhotos \/ NonZeroTiers(FirstFiveVenues) = <<>>) => menu_items = <<>>
        /\ menu_items # <<>> =>
              /\ Len(competitor_lists) = Len(sample_menu_items)
              /\ \A i \in DOMAIN sample_menu_items :
                    /\ menu_items[i].name = sample_menu_items[i].name
                    /\ Len(competitor_lists[i]) = Len(competitor_lists[1])
                    /\ TiersPricedAgainst(i) = TiersPricedAgainst(1)
                    /\ TiersPricedAgainst(i) = NonZeroTiers(FirstFiveVenues)

C12_Witness ==
    /\ PricingPage
    /\ HasPhotos
    /\ Len(AllVenues) = 6
    /\ AllVenues[1] = [name |-> "Venue", price_level |-> 3]
    /\ AllVenues[2] = [name |-> "Venue", price_level |-> 0]
    /\ AllVenues[4] = [name |-> "Venue", price_level |-> 1]
    /\ AllVenues[6] = [name |-> "Venue", price_level |-> 3]
    /\ Len(menu_items) = 4
    /\ \A i \in 1..4 : TiersPricedAgainst(i) = <<3, 1>>
    /\ menu_items[4].name = "Naan"

====
